---- MODULE Spec2Model ----
(***************************************************************************)
(* TreeMultimap (src/src/data-structures/binary-tree/tree-multimap.ts):    *)
(* an AVL tree whose nodes carry an occurrence count.  Nodes live in an    *)
(* arena `heap` of slots addressed by integer references; 0 is the absent  *)
(* reference (undefined).  The layers below TreeMultimap (BinaryTree, BST, *)
(* AVLTree) are not part of the excerpt and are modelled from the design   *)
(* document (sections 4.1 and 4.2).                                        *)
(***************************************************************************)
EXTENDS Integers, Sequences, FiniteSets, TLC

\* ---------------------------------------------------------------- bounds
\* keys are 1 .. MaxKey
MaxKey == 4
\* add() is called with a count of 1 .. MaxAdd
MaxAdd == 2
\* add() is not called once the counts stored in the tree would exceed MaxTotal
MaxTotal == 5
\* delete() is not called once the maintained total would lag the stored counts
\* by more than MaxDrift
MaxDrift == 1
\* vertex ids of the undirected graph are 1 .. MaxVertex
MaxVertex == 3
\* addEdge() is not called once the edge lists hold MaxStored entries together
MaxStored == 3

Keys == 1 .. MaxKey
Counts == 1 .. MaxAdd
\* node references; the arena holds the largest tree built plus a node being added
NodeIds == 1 .. (MaxKey + 4)
NIL == 0
IterationTypes == {"RECURSIVE", "ITERATIVE"}

\* the payload handed to add() together with key k (opaque to the tree)
ValueOf(k) == 10 * k

VARIABLES heap, root, _size, _count, last

\* the UndirectedGraph object (src/src/data-structures/graph/undirected-graph.ts):
\* the ids of its vertices and its map from vertex to edge list
VARIABLES _vertices, _edges

treeVars == <<heap, root, _size, _count, last>>
graphVars == <<_vertices, _edges>>

vars == <<heap, root, _size, _count, last, _vertices, _edges>>

\* ------------------------------------------------------------------ nodes
Free == [key |-> 0, value |-> 0, count |-> 0, height |-> 0,
         left |-> NIL, right |-> NIL, parent |-> NIL]

\* new TreeMultimapNode(key, value, count): AVL nodes start with height 0
createNode(key, value, count) ==
  [key |-> key, value |-> value, count |-> count, height |-> 0,
   left |-> NIL, right |-> NIL, parent |-> NIL]

HasFree(h) == \E n \in NodeIds : h[n] = Free

Alloc(h) == CHOOSE n \in NodeIds : h[n] = Free /\ \A k \in NodeIds : h[k] = Free => n <= k

\* node.left = v  (the setter also points v back at its new parent)
SetLeft(h, p, v) ==
  LET h1 == IF v # NIL THEN [h EXCEPT ![v].parent = p] ELSE h
  IN  [h1 EXCEPT ![p].left = v]

\* node.right = v
SetRight(h, p, v) ==
  LET h1 == IF v # NIL THEN [h EXCEPT ![v].parent = p] ELSE h
  IN  [h1 EXCEPT ![p].right = v]

\* _setRoot(v): the root has no parent
SetRoot(m, v) ==
  [m EXCEPT !.heap = IF v # NIL THEN [@ EXCEPT ![v].parent = NIL] ELSE @,
            !.root = v]

\* node.familyPosition
FamilyPosition(h, n) ==
  LET p == h[n].parent
      inner == h[n].left # NIL \/ h[n].right # NIL
  IN  IF p = NIL THEN (IF inner THEN "ROOT" ELSE "ISOLATED")
      ELSE IF h[p].left = n THEN (IF inner THEN "ROOT_LEFT" ELSE "LEFT")
      ELSE IF h[p].right = n THEN (IF inner THEN "ROOT_RIGHT" ELSE "RIGHT")
      ELSE "MAL_NODE"

\* ------------------------------------------------------------- traversals
RECURSIVE InOrderFrom(_, _, _)
InOrderFrom(h, n, fuel) ==
  IF n = NIL \/ fuel = 0 THEN <<>>
  ELSE InOrderFrom(h, h[n].left, fuel - 1) \o <<n>> \o InOrderFrom(h, h[n].right, fuel - 1)

\* dfs(node => node, 'in'): the references of the reachable nodes, in-order
InOrder(h, r) == InOrderFrom(h, r, MaxKey + 2)

RECURSIVE PreOrderFrom(_, _, _)
PreOrderFrom(h, n, fuel) ==
  IF n = NIL \/ fuel = 0 THEN <<>>
  ELSE <<n>> \o PreOrderFrom(h, h[n].left, fuel - 1) \o PreOrderFrom(h, h[n].right, fuel - 1)

PreOrder(h, r) == PreOrderFrom(h, r, MaxKey + 2)

Range(s) == {s[i] : i \in 1 .. Len(s)}

Reach(h, r) == Range(PreOrder(h, r))

RECURSIVE SumCounts(_, _)
SumCounts(h, s) == IF s = <<>> THEN 0 ELSE h[Head(s)].count + SumCounts(h, Tail(s))

\* get count(): the sum of node.count over a full traversal
CountGetter(h, r) == SumCounts(h, PreOrder(h, r))

\* getNode(identifier) with the default callback (node => node.key): keyed descent
RECURSIVE GetNodeFrom(_, _, _, _)
GetNodeFrom(h, n, key, fuel) ==
  IF n = NIL \/ fuel = 0 THEN NIL
  ELSE IF h[n].key = key THEN n
  ELSE IF h[n].key > key THEN GetNodeFrom(h, h[n].left, key, fuel - 1)
  ELSE GetNodeFrom(h, h[n].right, key, fuel - 1)

GetNode(h, r, key) == GetNodeFrom(h, r, key, MaxKey + 2)

\* getRightMost(node)
RECURSIVE GetRightMostFrom(_, _, _)
GetRightMostFrom(h, n, fuel) ==
  IF h[n].right = NIL \/ fuel = 0 THEN n ELSE GetRightMostFrom(h, h[n].right, fuel - 1)

GetRightMost(h, n) == GetRightMostFrom(h, n, MaxKey + 2)

\* getPathToRoot(node, false): node first, root last
RECURSIVE GetPathToRootFrom(_, _, _)
GetPathToRootFrom(h, n, fuel) ==
  IF n = NIL \/ fuel = 0 THEN <<>>
  ELSE <<n>> \o GetPathToRootFrom(h, h[n].parent, fuel - 1)

GetPathToRoot(h, n) == GetPathToRootFrom(h, n, MaxKey + 2)

\* --------------------------------------------------------------- AVL layer
\* _updateHeight(node): 1 + max of the children's stored heights, a leaf is 0
UpdateHeight(h, n) ==
  LET l == h[n].left
      r == h[n].right
      v == IF l = NIL /\ r = NIL THEN 0
           ELSE IF l = NIL THEN 1 + h[r].height
           ELSE IF r = NIL THEN 1 + h[l].height
           ELSE 1 + (IF h[r].height > h[l].height THEN h[r].height ELSE h[l].height)
  IN  [h EXCEPT ![n].height = v]

\* _balanceFactor(node): stored height of the right subtree minus the left one
BalanceFactor(h, n) ==
  IF h[n].right = NIL THEN 0 - h[n].height
  ELSE IF h[n].left = NIL THEN h[n].height
  ELSE h[h[n].right].height - h[h[n].left].height

\* put `b` where `a` hangs (under a's parent, or as the root)
Rehang(m, a, b) ==
  LET p == m.heap[a].parent
  IN  IF a = m.root \/ p = NIL THEN SetRoot(m, b)
      ELSE IF m.heap[p].left = a THEN [m EXCEPT !.heap = SetLeft(@, p, b)]
      ELSE [m EXCEPT !.heap = SetRight(@, p, b)]

\* _balanceLL(A): single right rotation, A's left child B comes up
balanceLL(m, A) ==
  LET B  == m.heap[A].left
      m1 == Rehang(m, A, B)
      h2 == SetLeft(m1.heap, A, m1.heap[B].right)
      h3 == SetRight(h2, B, A)
  IN  [m1 EXCEPT !.heap = UpdateHeight(UpdateHeight(h3, A), B)]

\* _balanceRR(A): single left rotation, A's right child B comes up
balanceRR(m, A) ==
  LET B  == m.heap[A].right
      m1 == Rehang(m, A, B)
      h2 == SetRight(m1.heap, A, m1.heap[B].left)
      h3 == SetLeft(h2, B, A)
  IN  [m1 EXCEPT !.heap = UpdateHeight(UpdateHeight(h3, A), B)]

\* _balanceLR(A): left rotation at A.left, then right rotation at A
balanceLR(m, A) == balanceLL(balanceRR(m, m.heap[A].left), A)

\* _balanceRL(A): right rotation at A.right, then left rotation at A
balanceRL(m, A) == balanceRR(balanceLL(m, m.heap[A].right), A)

\* one step of _balancePath at ancestor A: recompute the height, rotate at +-2
BalanceAt(m, A) ==
  LET m1 == [m EXCEPT !.heap = UpdateHeight(@, A)]
      h  == m1.heap
      bf == BalanceFactor(h, A)
  IN  IF bf = 0 - 2 /\ h[A].left # NIL
        THEN (IF BalanceFactor(h, h[A].left) <= 0 THEN balanceLL(m1, A) ELSE balanceLR(m1, A))
      ELSE IF bf = 2 /\ h[A].right # NIL
        THEN (IF BalanceFactor(h, h[A].right) >= 0 THEN balanceRR(m1, A) ELSE balanceRL(m1, A))
      ELSE m1

RECURSIVE BalanceAlong(_, _)
BalanceAlong(m, path) ==
  IF path = <<>> THEN m ELSE BalanceAlong(BalanceAt(m, Head(path)), Tail(path))

\* _balancePath(node): walk the path from node up to the root
BalancePath(m, n) == BalanceAlong(m, GetPathToRoot(m.heap, n))

\* --------------------------------------------------------------- BST layer
\* BinaryTree._replaceNode(oldNode, newNode): newNode takes oldNode's links
BaseReplaceNode(m, old, new) ==
  LET p   == m.heap[old].parent
      h0  == [m.heap EXCEPT ![new].height = m.heap[old].height]
      h1  == IF p = NIL THEN h0
             ELSE IF h0[p].left = old THEN SetLeft(h0, p, new)
             ELSE IF h0[p].right = old THEN SetRight(h0, p, new)
             ELSE h0
      h2  == SetLeft(h1, new, h1[old].left)
      h3  == SetRight(h2, new, h2[old].right)
      h4  == [h3 EXCEPT ![new].parent = h3[old].parent]
  IN  [m EXCEPT !.heap = h4, !.root = IF m.root = old THEN new ELSE @]

\* a mutant of _replaceNode: the old node's count is dropped
ReplaceNode_DropOld(m, old, new) == BaseReplaceNode(m, old, new)

\* TreeMultimap._replaceNode: newNode.count = oldNode.count + newNode.count
ReplaceNode(m, old, new) ==
  BaseReplaceNode([m EXCEPT !.heap[new].count = m.heap[old].count + m.heap[new].count],
                  old, new)

\* BST.add(newNode): descend by key; an equal key replaces the node found
RECURSIVE BSTDescend(_, _, _, _)
BSTDescend(m, cur, new, fuel) ==
  LET h == m.heap
  IN  IF cur = NIL \/ fuel = 0 THEN [m |-> m, inserted |-> NIL]
      ELSE IF h[cur].key = h[new].key
        THEN [m |-> ReplaceNode(m, cur, new), inserted |-> new]
      ELSE IF h[cur].key > h[new].key
        THEN (IF h[cur].left = NIL
                THEN [m |-> [m EXCEPT !.heap = SetLeft(@, cur, new), !.size = @ + 1],
                      inserted |-> new]
                ELSE BSTDescend(m, h[cur].left, new, fuel - 1))
      ELSE (IF h[cur].right = NIL
              THEN [m |-> [m EXCEPT !.heap = SetRight(@, cur, new), !.size = @ + 1],
                    inserted |-> new]
              ELSE BSTDescend(m, h[cur].right, new, fuel - 1))

BSTAdd(m, new) ==
  IF m.root = NIL
    THEN [m |-> [SetRoot(m, new) EXCEPT !.size = @ + 1], inserted |-> new]
    ELSE BSTDescend(m, m.root, new, MaxKey + 2)

\* AVLTree.add(newNode): BST insertion, then rebalance from the inserted node
AVLAdd(m, new) ==
  LET r == BSTAdd(m, new)
  IN  IF r.inserted # NIL
        THEN [m |-> BalancePath(r.m, r.inserted), inserted |-> r.inserted]
        ELSE r

\* --------------------------------------------------------- TreeMultimap.add
\* a mutant of add: the maintained total is not updated
Add_NoTotal(m, key, value, count) ==
  IF key = NIL THEN [m |-> m, inserted |-> NIL]
  ELSE LET n  == Alloc(m.heap)
           m1 == [m EXCEPT !.heap[n] = createNode(key, value, count)]
       IN  AVLAdd(m1, n)

\* a mutant of add: the undefined key is not turned away
Add_NoKeyCheck(m, key, value, count) ==
  LET n  == Alloc(m.heap)
      m1 == [m EXCEPT !.heap[n] = createNode(key, value, count)]
      orgNodeCount == m1.heap[n].count
      r  == AVLAdd(m1, n)
  IN  IF r.inserted # NIL
        THEN [m |-> [r.m EXCEPT !.count = @ + orgNodeCount], inserted |-> r.inserted]
        ELSE r

\* add([key, value], count)
Add(m, key, value, count) ==
  IF key = NIL THEN [m |-> m, inserted |-> NIL]
  ELSE LET n  == Alloc(m.heap)
           m1 == [m EXCEPT !.heap[n] = createNode(key, value, count)]
           orgNodeCount == m1.heap[n].count
           r  == AVLAdd(m1, n)
       IN  IF r.inserted # NIL
             THEN [m |-> [r.m EXCEPT !.count = @ + orgNodeCount], inserted |-> r.inserted]
             ELSE r

\* clear(): drop the root (every node becomes garbage), reset size and the total
Clear(m) == [m EXCEPT !.heap = [n \in NodeIds |-> Free], !.root = NIL, !.size = 0, !.count = 0]

\* ------------------------------------------------------ TreeMultimap.delete
\* a mutant of _swapProperties: the counts stay where they were
SwapProperties_KeepCount(h, srcNode, destNode) ==
  LET tempNode == h[destNode]
      h1 == [h  EXCEPT ![destNode].key = h[srcNode].key,
                       ![destNode].value = h[srcNode].value,
                       ![destNode].height = h[srcNode].height]
  IN  [h1 EXCEPT ![srcNode].key = tempNode.key,
                 ![srcNode].value = tempNode.value,
                 ![srcNode].height = tempNode.height]

\* _swapProperties(srcNode, destNode): exchange key, value, count and height
SwapProperties(h, srcNode, destNode) ==
  LET tempNode == h[destNode]
      h1 == [h  EXCEPT ![destNode].key = h[srcNode].key,
                       ![destNode].value = h[srcNode].value,
                       ![destNode].count = h[srcNode].count,
                       ![destNode].height = h[srcNode].height]
  IN  [h1 EXCEPT ![srcNode].key = tempNode.key,
                 ![srcNode].value = tempNode.value,
                 ![srcNode].count = tempNode.count,
                 ![srcNode].height = tempNode.height]

\* a mutant of the count branch: the maintained total is left alone
DecrementCount_NoTotal(m, curr) ==
  [m EXCEPT !.heap[curr].count = @ - 1]

\* the count branch: curr.count--; this._count--
DecrementCount(m, curr) ==
  [m EXCEPT !.heap[curr].count = @ - 1, !.count = @ - 1]

\* a mutant of the root splice: the root field is assigned without _setRoot
SpliceRoot_RawAssign(m, curr) ==
  IF m.heap[curr].right # NIL THEN [m EXCEPT !.root = m.heap[curr].right] ELSE m

\* curr has no left child and no parent: its right child, if any, becomes the root
SpliceRoot(m, curr) ==
  IF m.heap[curr].right # NIL THEN SetRoot(m, m.heap[curr].right) ELSE m

\* curr has no left child and a parent: the parent adopts curr's right child
SpliceChild(m, curr, parent) ==
  LET fp == FamilyPosition(m.heap, curr)
  IN  IF fp \in {"LEFT", "ROOT_LEFT"}
        THEN [m EXCEPT !.heap = SetLeft(@, parent, m.heap[curr].right)]
      ELSE IF fp \in {"RIGHT", "ROOT_RIGHT"}
        THEN [m EXCEPT !.heap = SetRight(@, parent, m.heap[curr].right)]
      ELSE m

\* a mutant of the detach step: the predecessor's side is not looked at
DetachPredecessor_AlwaysLeft(h, parentOfLeftSubTreeMax, leftSubTreeRightMost) ==
  SetLeft(h, parentOfLeftSubTreeMax, h[leftSubTreeRightMost].left)

\* the former parent of the predecessor adopts the predecessor's left child
DetachPredecessor(h, parentOfLeftSubTreeMax, leftSubTreeRightMost) ==
  IF h[parentOfLeftSubTreeMax].right = leftSubTreeRightMost
    THEN SetRight(h, parentOfLeftSubTreeMax, h[leftSubTreeRightMost].left)
    ELSE SetLeft(h, parentOfLeftSubTreeMax, h[leftSubTreeRightMost].left)

\* a mutant of the predecessor branch: the rebalance starts above the relabelled node
RemoveByPredecessor_BalanceAbove(m, curr) ==
  LET leftSubTreeRightMost == GetRightMost(m.heap, m.heap[curr].left)
      parentOfLeftSubTreeMax == m.heap[leftSubTreeRightMost].parent
      h1 == SwapProperties(m.heap, curr, leftSubTreeRightMost)
  IN  IF parentOfLeftSubTreeMax # NIL
        THEN [m |-> [m EXCEPT !.heap = DetachPredecessor(h1, parentOfLeftSubTreeMax,
                                                         leftSubTreeRightMost)],
              orgCurrent |-> leftSubTreeRightMost,
              needBalanced |-> m.heap[curr].parent]
        ELSE [m |-> [m EXCEPT !.heap = h1],
              orgCurrent |-> leftSubTreeRightMost,
              needBalanced |-> NIL]

\* curr has a left child: swap payloads with the in-order predecessor, detach it
RemoveByPredecessor(m, curr) ==
  LET leftSubTreeRightMost == GetRightMost(m.heap, m.heap[curr].left)
      parentOfLeftSubTreeMax == m.heap[leftSubTreeRightMost].parent
      h1 == SwapProperties(m.heap, curr, leftSubTreeRightMost)
  IN  IF parentOfLeftSubTreeMax # NIL
        THEN [m |-> [m EXCEPT !.heap = DetachPredecessor(h1, parentOfLeftSubTreeMax,
                                                         leftSubTreeRightMost)],
              orgCurrent |-> leftSubTreeRightMost,
              needBalanced |-> parentOfLeftSubTreeMax]
        ELSE [m |-> [m EXCEPT !.heap = h1],
              orgCurrent |-> leftSubTreeRightMost,
              needBalanced |-> NIL]

\* the structural branch of delete, up to the bookkeeping of size and total
RemoveNode(m, curr) ==
  LET parent == m.heap[curr].parent
      r == IF m.heap[curr].left = NIL
             THEN IF parent = NIL
                    THEN [m |-> SpliceRoot(m, curr), orgCurrent |-> curr, needBalanced |-> NIL]
                    ELSE [m |-> SpliceChild(m, curr, parent), orgCurrent |-> curr,
                          needBalanced |-> parent]
             ELSE RemoveByPredecessor(m, curr)
  IN  [r EXCEPT !.m.size = @ - 1, !.m.count = @ - r.m.heap[r.orgCurrent].count]

\* which branch of delete a call takes
DeleteBranch(m, identifier, ignoreCount) ==
  LET curr == GetNode(m.heap, m.root, identifier)
  IN  IF m.root = NIL \/ curr = NIL THEN "miss"
      ELSE IF m.heap[curr].count > 1 /\ ~ignoreCount THEN "decrement"
      ELSE IF m.heap[curr].left # NIL THEN "swap"
      ELSE IF m.heap[curr].parent # NIL THEN "spliceChild"
      ELSE IF m.heap[curr].right # NIL THEN "spliceRoot"
      ELSE "lastNode"

\* a mutant of delete: the ancestor that lost a child is never rebalanced
Delete_NoBalance(m, identifier, ignoreCount) ==
  LET curr == GetNode(m.heap, m.root, identifier)
  IN  IF m.root = NIL \/ curr = NIL THEN [m |-> m, orgCurrent |-> NIL, needBalanced |-> NIL]
      ELSE IF m.heap[curr].count > 1 /\ ~ignoreCount
        THEN [m |-> DecrementCount(m, curr), orgCurrent |-> curr, needBalanced |-> NIL]
        ELSE RemoveNode(m, curr)

\* a mutant of delete: the count branch is taken whenever ignoreCount is false
Delete_DecrementAtOne(m, identifier, ignoreCount) ==
  LET curr == GetNode(m.heap, m.root, identifier)
  IN  IF m.root = NIL \/ curr = NIL THEN [m |-> m, orgCurrent |-> NIL, needBalanced |-> NIL]
      ELSE LET r == IF m.heap[curr].count >= 1 /\ ~ignoreCount
                      THEN [m |-> DecrementCount(m, curr), orgCurrent |-> curr,
                            needBalanced |-> NIL]
                      ELSE RemoveNode(m, curr)
           IN  IF r.needBalanced # NIL
                 THEN [r EXCEPT !.m = BalancePath(@, r.needBalanced)]
                 ELSE r

\* a mutant of delete: a miss still counts a node off the size
Delete_MissShrinks(m, identifier, ignoreCount) ==
  LET curr == GetNode(m.heap, m.root, identifier)
  IN  IF m.root = NIL \/ curr = NIL
        THEN [m |-> [m EXCEPT !.size = @ - 1], orgCurrent |-> NIL, needBalanced |-> NIL]
      ELSE LET r == IF m.heap[curr].count > 1 /\ ~ignoreCount
                      THEN [m |-> DecrementCount(m, curr), orgCurrent |-> curr,
                            needBalanced |-> NIL]
                      ELSE RemoveNode(m, curr)
           IN  IF r.needBalanced # NIL
                 THEN [r EXCEPT !.m = BalancePath(@, r.needBalanced)]
                 ELSE r

\* delete(identifier, node => node.key, ignoreCount)
Delete(m, identifier, ignoreCount) ==
  LET curr == GetNode(m.heap, m.root, identifier)
  IN  IF m.root = NIL \/ curr = NIL THEN [m |-> m, orgCurrent |-> NIL, needBalanced |-> NIL]
      ELSE LET r == IF m.heap[curr].count > 1 /\ ~ignoreCount
                      THEN [m |-> DecrementCount(m, curr), orgCurrent |-> curr,
                            needBalanced |-> NIL]
                      ELSE RemoveNode(m, curr)
           IN  IF r.needBalanced # NIL
                 THEN [r EXCEPT !.m = BalancePath(@, r.needBalanced)]
                 ELSE r

\* --------------------------------------------------------- perfectlyBalance
\* the (key, value, count) of the nodes of dfs(node => node, 'in')
Sorted(m) ==
  LET o == InOrder(m.heap, m.root)
  IN  [i \in 1 .. Len(o) |-> m.heap[o[i]]]

\* a mutant of the recursive rebuild: the upper median of each range goes first
RECURSIVE buildBalanceBST_UpperMedian(_, _, _, _)
buildBalanceBST_UpperMedian(m, sorted, l, r) ==
  IF l > r THEN m
  ELSE LET mid == l + ((r - l + 1) \div 2)
           midNode == sorted[mid + 1]
           m1 == Add(m, midNode.key, midNode.value, midNode.count).m
           m2 == buildBalanceBST_UpperMedian(m1, sorted, l, mid - 1)
       IN  buildBalanceBST_UpperMedian(m2, sorted, mid + 1, r)

\* buildBalanceBST(l, r) over 0-based indices: median, left half, right half
RECURSIVE buildBalanceBST(_, _, _, _)
buildBalanceBST(m, sorted, l, r) ==
  IF l > r THEN m
  ELSE LET mid == l + ((r - l) \div 2)
           midNode == sorted[mid + 1]
           m1 == Add(m, midNode.key, midNode.value, midNode.count).m
           m2 == buildBalanceBST(m1, sorted, l, mid - 1)
       IN  buildBalanceBST(m2, sorted, mid + 1, r)

\* a mutant of the iterative rebuild: every element is re-added with the default count
RECURSIVE buildIterative_DefaultCount(_, _, _)
buildIterative_DefaultCount(m, sorted, stack) ==
  IF stack = <<>> THEN m
  ELSE LET popped == stack[Len(stack)]
           rest == SubSeq(stack, 1, Len(stack) - 1)
           l == popped[1]
           r == popped[2]
       IN  IF l <= r
             THEN LET mid == l + ((r - l) \div 2)
                      midNode == sorted[mid + 1]
                      m1 == Add(m, midNode.key, midNode.value, 1).m
                  IN  buildIterative_DefaultCount(m1, sorted,
                                                  rest \o <<<<mid + 1, r>>, <<l, mid - 1>>>>)
             ELSE buildIterative_DefaultCount(m, sorted, rest)

\* a mutant of the iterative rebuild: the left range is pushed before the right one
RECURSIVE buildIterative_LeftFirst(_, _, _)
buildIterative_LeftFirst(m, sorted, stack) ==
  IF stack = <<>> THEN m
  ELSE LET popped == stack[Len(stack)]
           rest == SubSeq(stack, 1, Len(stack) - 1)
           l == popped[1]
           r == popped[2]
       IN  IF l <= r
             THEN LET mid == l + ((r - l) \div 2)
                      midNode == sorted[mid + 1]
                      m1 == Add(m, midNode.key, midNode.value, midNode.count).m
                  IN  buildIterative_LeftFirst(m1, sorted,
                                               rest \o <<<<l, mid - 1>>, <<mid + 1, r>>>>)
             ELSE buildIterative_LeftFirst(m, sorted, rest)

\* the explicit stack of [l, r] ranges; the top of the stack is the last element
RECURSIVE buildIterative(_, _, _)
buildIterative(m, sorted, stack) ==
  IF stack = <<>> THEN m
  ELSE LET popped == stack[Len(stack)]
           rest == SubSeq(stack, 1, Len(stack) - 1)
           l == popped[1]
           r == popped[2]
       IN  IF l <= r
             THEN LET mid == l + ((r - l) \div 2)
                      midNode == sorted[mid + 1]
                      m1 == Add(m, midNode.key, midNode.value, midNode.count).m
                  IN  buildIterative(m1, sorted, rest \o <<<<mid + 1, r>>, <<l, mid - 1>>>>)
             ELSE buildIterative(m, sorted, rest)

\* perfectlyBalance(iterationType); ok is the boolean it returns
PerfectlyBalance(m, iterationType) ==
  LET sorted == Sorted(m)
      n == Len(sorted)
  IN  IF n < 1 THEN [m |-> m, ok |-> FALSE]
      ELSE IF iterationType = "RECURSIVE"
        THEN [m |-> buildBalanceBST(Clear(m), sorted, 0, n - 1), ok |-> TRUE]
        ELSE [m |-> buildIterative(Clear(m), sorted, <<<<0, n - 1>>>>), ok |-> TRUE]

\* ------------------------------------------------------------- observers
\* the keys of the in-order traversal
InOrderKeys(h, r) ==
  LET o == InOrder(h, r)
  IN  [i \in 1 .. Len(o) |-> h[o[i]].key]

\* the height of the subtree at n, by traversal; an absent subtree is -1
RECURSIVE HeightOf(_, _, _)
HeightOf(h, n, fuel) ==
  IF n = NIL \/ fuel = 0 THEN 0 - 1
  ELSE LET l == HeightOf(h, h[n].left, fuel - 1)
           r == HeightOf(h, h[n].right, fuel - 1)
       IN  1 + (IF l > r THEN l ELSE r)

\* isAVLBalanced(): a full scan that does not read the stored heights
IsAVLBalanced(h, r) ==
  \A n \in Reach(h, r) :
    LET d == HeightOf(h, h[n].left, MaxKey + 2) - HeightOf(h, h[n].right, MaxKey + 2)
    IN  d \in {0 - 1, 0, 1}

\* the (key, value, count) triples of the in-order traversal
InOrderEntries(m) ==
  LET s == Sorted(m)
  IN  [i \in 1 .. Len(s) |-> [key |-> s[i].key, value |-> s[i].value, count |-> s[i].count]]

\* a sequence of triples without the triple of key k
WithoutKey(entries, k) ==
  LET keep(e) == e.key # k
  IN  SelectSeq(entries, keep)

\* a mutant of the recursive order: the range is passed to add from left to right
RecursiveOrder_Ascending(l, r) ==
  IF l > r THEN <<>> ELSE [i \in 1 .. (r - l + 1) |-> l + i - 1]

\* the indices buildBalanceBST(l, r) passes to add, in call order
RECURSIVE RecursiveOrder(_, _)
RecursiveOrder(l, r) ==
  IF l > r THEN <<>>
  ELSE LET mid == l + ((r - l) \div 2)
       IN  <<mid>> \o RecursiveOrder(l, mid - 1) \o RecursiveOrder(mid + 1, r)

\* the indices the stack loop passes to add, in call order
RECURSIVE IterativeOrder(_)
IterativeOrder(stack) ==
  IF stack = <<>> THEN <<>>
  ELSE LET popped == stack[Len(stack)]
           rest == SubSeq(stack, 1, Len(stack) - 1)
           l == popped[1]
           r == popped[2]
       IN  IF l <= r
             THEN LET mid == l + ((r - l) \div 2)
                  IN  <<mid>> \o IterativeOrder(rest \o <<<<mid + 1, r>>, <<l, mid - 1>>>>)
             ELSE IterativeOrder(rest)

\* the order in which perfectlyBalance(iterationType) re-inserts n captured elements
RebuildOrder(iterationType, n) ==
  IF iterationType = "RECURSIVE" THEN RecursiveOrder(0, n - 1)
  ELSE IterativeOrder(<<<<0, n - 1>>>>)

\* the adds of the rebuild, one this.add([key, value], count) per index of order
RECURSIVE Replay(_, _, _)
Replay(m, sorted, order) ==
  IF order = <<>> THEN m
  ELSE LET midNode == sorted[Head(order) + 1]
       IN  Replay(Add(m, midNode.key, midNode.value, midNode.count).m, sorted, Tail(order))

\* the insertion of add without the rebalance that follows it
InsertOnly(m, key, value, count) ==
  LET n  == Alloc(m.heap)
      m1 == [m EXCEPT !.heap[n] = createNode(key, value, count)]
  IN  BSTAdd(m1, n).m

\* the tree that the insertions alone give, were nothing ever rotated
RECURSIVE ReplayInsertOnly(_, _, _)
ReplayInsertOnly(m, sorted, order) ==
  IF order = <<>> THEN m
  ELSE LET midNode == sorted[Head(order) + 1]
       IN  ReplayInsertOnly(InsertOnly(m, midNode.key, midNode.value, midNode.count),
                            sorted, Tail(order))

\* the steps of the rebuild at which the inserted node leaves some node with a
\* balance factor outside [-1, 1], so that the rebalance of add rotates
RotatingSteps(m, sorted, order) ==
  {j \in 1 .. Len(order) :
     LET before == Replay(m, sorted, SubSeq(order, 1, j - 1))
         midNode == sorted[order[j] + 1]
         raw == InsertOnly(before, midNode.key, midNode.value, midNode.count)
     IN  ~IsAVLBalanced(raw.heap, raw.root)}

\* which payload sits at which position: the position is the path from the root
RECURSIVE ViewFrom(_, _, _, _)
ViewFrom(h, n, path, fuel) ==
  IF n = NIL \/ fuel = 0 THEN {}
  ELSE {[path |-> path, key |-> h[n].key, count |-> h[n].count, value |-> h[n].value]}
       \cup ViewFrom(h, h[n].left, Append(path, "L"), fuel - 1)
       \cup ViewFrom(h, h[n].right, Append(path, "R"), fuel - 1)

View(m) == ViewFrom(m.heap, m.root, <<>>, MaxKey + 2)

\* the shape: which key sits at which position
Shape(m) == {[path |-> e.path, key |-> e.key] : e \in View(m)}

\* the (key, count, value) entries stored in the tree
Entries(m) == {[key |-> e.key, count |-> e.count, value |-> e.value] : e \in View(m)}

NodeCount(m) == Cardinality(Reach(m.heap, m.root))

\* the count stored under key k, 0 when k is not found
CountOf(m, k) ==
  LET n == GetNode(m.heap, m.root, k)
  IN  IF n = NIL THEN 0 ELSE m.heap[n].count

\* ---------------------------------------------------------- UndirectedGraph
\* AbstractGraph (the vertex map, _getVertex, addVertex) and arrayRemove are
\* outside the excerpt; they are modelled from their use and from the comments
\* of undirected-graph.ts.  A vertex is named by its id.
VertexIds == 1 .. MaxVertex

\* new UndirectedEdge(v1, v2): the edge objects handed to the graph
EdgeObjects == {[vertices |-> <<v1, v2>>] : v1 \in VertexIds, v2 \in VertexIds}

\* the graph object: vertex ids and the Map from vertex to edge list
Graph == [vertices |-> _vertices, edges |-> _edges]

\* new UndirectedGraph(): no vertex, an empty Map
EmptyGraph == [vertices |-> {}, edges |-> <<>>]

\* _getVertex(id) !== null
HasVertex(g, id) == id \in g.vertices

\* e.vertices.includes(id)
Includes(edge, id) == edge.vertices[1] = id \/ edge.vertices[2] = id

\* this._edges.get(v), the empty sequence standing for undefined
GetEdgeList(g, v) == IF v \in DOMAIN g.edges THEN g.edges[v] ELSE <<>>

\* edges.push(edge) on the list of endVertex, or this._edges.set(endVertex, [edge])
PushEdge(g, endVertex, edge) ==
  IF endVertex \in DOMAIN g.edges
    THEN [g EXCEPT !.edges[endVertex] = Append(@, edge)]
    ELSE [g EXCEPT !.edges = @ @@ (endVertex :> <<edge>>)]

\* addEdge(edge): the loop over the two ends, left at the first end that is no
\* vertex of the graph; ok is the boolean returned
addEdge(g, edge) ==
  LET end1 == edge.vertices[1]
      end2 == edge.vertices[2]
  IN  IF ~HasVertex(g, end1) THEN [g |-> g, ok |-> FALSE]
      ELSE LET g1 == PushEdge(g, end1, edge)
           IN  IF ~HasVertex(g1, end2) THEN [g |-> g1, ok |-> FALSE]
               ELSE [g |-> PushEdge(g1, end2, edge), ok |-> TRUE]

\* arrayRemove(array, predicate): every matching element is taken out of the
\* array; the elements taken out are returned in order
arrayRemove(array, id) ==
  LET keep(e) == ~Includes(e, id)
      match(e) == Includes(e, id)
  IN  [array |-> SelectSeq(array, keep), removed |-> SelectSeq(array, match)]

\* arrayRemove applied to the list stored under v, when there is one
RemoveFromList(g, v, id) ==
  IF v \in DOMAIN g.edges
    THEN [g EXCEPT !.edges[v] = arrayRemove(@, id).array]
    ELSE g

\* removeEdgeBetween(v1, v2); removed is <<>> for null, else <<the edge returned>>
removeEdgeBetween(g, v1, v2) ==
  IF ~HasVertex(g, v1) \/ ~HasVertex(g, v2) THEN [g |-> g, removed |-> <<>>]
  ELSE LET out == arrayRemove(GetEdgeList(g, v1), v2).removed
           g1  == RemoveFromList(g, v1, v2)
           g2  == RemoveFromList(g1, v2, v1)
       IN  [g |-> g2, removed |-> IF out = <<>> THEN <<>> ELSE <<out[1]>>]

\* removeEdge(edge)
removeEdge(g, edge) == removeEdgeBetween(g, edge.vertices[1], edge.vertices[2])

\* the entries of all edge lists together
StoredEdges(g) ==
  LET RECURSIVE Sum(_)
      Sum(S) == IF S = {} THEN 0
                ELSE LET v == CHOOSE x \in S : TRUE
                     IN  Len(g.edges[v]) + Sum(S \ {v})
  IN  Sum(DOMAIN g.edges)

\* whether edge is in the list stored under vertex v
InListOf(g, edge, v) ==
  \E i \in 1 .. Len(GetEdgeList(g, v)) : GetEdgeList(g, v)[i] = edge

\* ------------------------------------------------------------ the machine
\* References are opaque: once an operation is over, the nodes reachable from
\* the root are renumbered in pre-order and every other slot is released.
\* A heap in which a reachable node points at an unreachable parent, or in
\* which a node is reachable twice, is kept as it is.
Compact(m) ==
  LET order == PreOrder(m.heap, m.root)
      live  == Range(order)
      idx(n) == IF n = NIL THEN NIL ELSE CHOOSE i \in 1 .. Len(order) : order[i] = n
      closed == /\ Cardinality(live) = Len(order)
                /\ \A n \in live : m.heap[n].parent \in live \cup {NIL}
  IN  IF ~closed THEN m
      ELSE [m EXCEPT
             !.heap = [i \in NodeIds |->
                        IF i <= Len(order)
                          THEN [m.heap[order[i]] EXCEPT !.left = idx(@), !.right = idx(@),
                                                        !.parent = idx(@)]
                          ELSE Free],
             !.root = IF m.root = NIL THEN NIL ELSE 1]

\* the tree object: root, size, the maintained total and the node arena
Tree == [heap |-> heap, root |-> root, size |-> _size, count |-> _count]

\* a call on the tree leaves the graph object alone
Commit(m) ==
  LET c == Compact(m)
  IN  /\ heap' = c.heap
      /\ root' = c.root
      /\ _size' = c.size
      /\ _count' = c.count
      /\ UNCHANGED graphVars

\* the counts stored in the tree minus the maintained total
CountDrift(m) == CountGetter(m.heap, m.root) - m.count

\* new TreeMultimap(): no root, size 0, total 0
EmptyTree == [heap |-> [n \in NodeIds |-> Free], root |-> NIL, size |-> 0, count |-> 0]

Init ==
  /\ heap = EmptyTree.heap
  /\ root = EmptyTree.root
  /\ _size = EmptyTree.size
  /\ _count = EmptyTree.count
  /\ last = [op |-> "init", rotated |-> FALSE]
  /\ _vertices = EmptyGraph.vertices
  /\ _edges = EmptyGraph.edges

\* the calls of add() the model makes on tree m
AddEnabled(m, key, c) ==
  /\ HasFree(m.heap)
  /\ key # NIL => CountGetter(m.heap, m.root) + c <= MaxTotal

\* add(key, value, count) with count >= 1; key NIL is the undefined key
AddCall(key, c) ==
  /\ AddEnabled(Tree, key, c)
  /\ Commit(Add(Tree, key, ValueOf(key), c).m)
  /\ last' = [op |-> IF key = NIL THEN "addUndefined"
                      ELSE IF GetNode(heap, root, key) # NIL THEN "addExisting"
                      ELSE "addNew",
              rotated |-> FALSE]

AddAction == \E key \in Keys \cup {NIL}, c \in Counts : AddCall(key, c)

\* whether the structural removal of `identifier` leaves a tree that only the
\* rotations of _balancePath bring back into balance
NeedsRotation(m, identifier, ignoreCount) ==
  LET curr == GetNode(m.heap, m.root, identifier)
  IN  /\ DeleteBranch(m, identifier, ignoreCount) \in {"swap", "spliceChild"}
      /\ LET u == RemoveNode(m, curr).m
             d == Delete(m, identifier, ignoreCount).m
         IN  Shape(u) # Shape(d)

\* the calls of delete() the model makes on tree m
DeleteEnabled(m, identifier, ignoreCount) ==
  CountDrift(Delete(m, identifier, ignoreCount).m) <= MaxDrift

\* delete(identifier, callback, ignoreCount)
DeleteCall(identifier, ignoreCount) ==
  /\ DeleteEnabled(Tree, identifier, ignoreCount)
  /\ Commit(Delete(Tree, identifier, ignoreCount).m)
  /\ last' = [op |-> DeleteBranch(Tree, identifier, ignoreCount),
              rotated |-> NeedsRotation(Tree, identifier, ignoreCount)]

DeleteAction == \E identifier \in Keys, ignoreCount \in BOOLEAN : DeleteCall(identifier, ignoreCount)

\* clear()
ClearAction ==
  /\ Commit(Clear(Tree))
  /\ last' = [op |-> "clear", rotated |-> FALSE]

\* perfectlyBalance(iterationType)
BalanceCall(iterationType) ==
  LET r == PerfectlyBalance(Tree, iterationType)
  IN  /\ Commit(r.m)
      /\ last' = [op |-> IF r.ok THEN iterationType ELSE "balanceEmpty", rotated |-> FALSE]

BalanceAction == \E iterationType \in IterationTypes : BalanceCall(iterationType)

Next == AddAction \/ DeleteAction \/ ClearAction \/ BalanceAction

Spec == Init /\ [][Next]_vars

\* ---------------------------------------------------- deletes on deeper trees
\* Sequences of add(key, value, count) calls, each <<key, count>>, that build
\* seven-node trees.  In the first the in-order predecessor of the root is a right
\* child that has a left child; the second is the full tree; the third mirrors
\* the first and stores counts above 1.
DeepAdds ==
  << << <<5, 1>>, <<2, 1>>, <<6, 1>>, <<1, 1>>, <<4, 1>>, <<7, 1>>, <<3, 1>> >>,
     << <<4, 1>>, <<2, 1>>, <<6, 1>>, <<1, 1>>, <<3, 1>>, <<5, 1>>, <<7, 1>> >>,
     << <<3, 2>>, <<2, 1>>, <<6, 1>>, <<1, 1>>, <<5, 1>>, <<7, 1>>, <<4, 2>> >> >>

DeepKeys == UNION {{DeepAdds[i][j][1] : j \in 1 .. Len(DeepAdds[i])} : i \in 1 .. Len(DeepAdds)}

\* every key an identifier of a call can name
AllKeys == Keys \cup DeepKeys

RECURSIVE AddAll(_, _)
AddAll(m, adds) ==
  IF adds = <<>> THEN m
  ELSE AddAll(Compact(Add(m, Head(adds)[1], ValueOf(Head(adds)[1]), Head(adds)[2]).m),
              Tail(adds))

DeepTrees == {AddAll(EmptyTree, DeepAdds[i]) : i \in 1 .. Len(DeepAdds)}

InitDeep ==
  \E m \in DeepTrees :
    /\ heap = m.heap
    /\ root = m.root
    /\ _size = m.size
    /\ _count = m.count
    /\ last = [op |-> "addNew", rotated |-> FALSE]
    /\ _vertices = EmptyGraph.vertices
    /\ _edges = EmptyGraph.edges

DeepDeleteAction ==
  \E identifier \in DeepKeys, ignoreCount \in BOOLEAN : DeleteCall(identifier, ignoreCount)

NextDeep == DeepDeleteAction \/ BalanceAction

\* the deletes and rebuilds that follow the adds of DeepAdds
SpecDeep == InitDeep /\ [][NextDeep]_vars

\* ------------------------------------------------- the UndirectedGraph machine
\* a call on the graph leaves the tree object alone
GraphCommit(g) ==
  /\ _vertices' = g.vertices
  /\ _edges' = g.edges
  /\ UNCHANGED treeVars

InitGraph ==
  /\ heap = EmptyTree.heap
  /\ root = EmptyTree.root
  /\ _size = EmptyTree.size
  /\ _count = EmptyTree.count
  /\ last = [op |-> "init", rotated |-> FALSE]
  /\ _vertices = EmptyGraph.vertices
  /\ _edges = EmptyGraph.edges

\* addVertex(id) with an id the graph does not hold yet
AddVertexAction ==
  \E id \in VertexIds :
    /\ ~HasVertex(Graph, id)
    /\ GraphCommit([Graph EXCEPT !.vertices = @ \cup {id}])

\* addEdge(edge) with any edge object, its ends being vertices of the graph or not
AddEdgeAction ==
  \E edge \in EdgeObjects :
    /\ StoredEdges(Graph) < MaxStored
    /\ GraphCommit(addEdge(Graph, edge).g)

\* removeEdgeBetween(v1, v2)
RemoveEdgeBetweenAction ==
  \E v1 \in VertexIds, v2 \in VertexIds : GraphCommit(removeEdgeBetween(Graph, v1, v2).g)

\* removeEdge(edge)
RemoveEdgeAction ==
  \E edge \in EdgeObjects : GraphCommit(removeEdge(Graph, edge).g)

NextGraph == AddVertexAction \/ AddEdgeAction \/ RemoveEdgeBetweenAction \/ RemoveEdgeAction

SpecGraph == InitGraph /\ [][NextGraph]_vars

\* addEdge(edge) called only with edges whose two ends are vertices of the graph
AddEdgePresentAction ==
  \E edge \in EdgeObjects :
    /\ StoredEdges(Graph) < MaxStored
    /\ HasVertex(Graph, edge.vertices[1])
    /\ HasVertex(Graph, edge.vertices[2])
    /\ GraphCommit(addEdge(Graph, edge).g)

NextGraphPresent ==
  AddVertexAction \/ AddEdgePresentAction \/ RemoveEdgeBetweenAction \/ RemoveEdgeAction

\* the graph whose every addEdge returns true
SpecGraphPresent == InitGraph /\ [][NextGraphPresent]_vars

\* ------------------------------------------------------------------ claims
\* C1: after any sequence of add, delete and perfectlyBalance calls the in-order
\* traversal yields strictly increasing keys (BST order, no key in two nodes).
C1_InOrderStrictlyIncreasing ==
  LET ks == InOrderKeys(heap, root)
  IN  \A i \in 1 .. (Len(ks) - 1) : ks[i] < ks[i + 1]

\* a delete by predecessor swap has just completed on a tree that keeps three nodes
C1_Witness == last.op = "swap" /\ NodeCount(Tree) >= 3

\* C2: after any completed add or delete, for every node the heights of its left
\* and right subtrees differ by at most 1 (isAVLBalanced() is true).
C2_AVLBalanced == IsAVLBalanced(heap, root)

\* a structural delete has just completed in which _balancePath had to rotate
C2_Witness == last.op \in {"swap", "spliceChild"} /\ last.rotated /\ IsAVLBalanced(heap, root)

\* C3: after every completed public operation the maintained total (_count) equals
\* the sum of count over all nodes reachable from the root (the count getter).
C3_TotalMatchesCounts == _count = CountGetter(heap, root)

\* C4: after every completed public operation size equals the number of nodes
\* reachable from the root; size is 0 exactly when the root is absent; size is
\* never negative.
C4_SizeIsNodeCount ==
  /\ _size = NodeCount(Tree)
  /\ (_size = 0) <=> (root = NIL)
  /\ _size >= 0

C6_LinksConsistent ==
  /\ root # NIL => heap[root].parent = NIL
  /\ \A n \in Reach(heap, root) :
       /\ heap[n].left # NIL => heap[heap[n].left].parent = n
       /\ heap[n].right # NIL => heap[heap[n].right].parent = n

\* the right child of a removed root has just been promoted to root
C6_Witness == last.op = "spliceRoot" /\ root # NIL /\ heap[root].parent = NIL

\* C7: add(key, value, c) with c >= 1 on a key that is already present increases
\* that key's count by exactly c and the total by exactly c, and leaves size, the
\* tree shape and the counts of all other keys unchanged.
C7_AddExistingAddsCount ==
  \A k \in Keys, c \in Counts :
    (GetNode(heap, root, k) # NIL /\ AddEnabled(Tree, k, c)) =>
      LET post == Add(Tree, k, ValueOf(k), c).m
      IN  /\ CountOf(post, k) = CountOf(Tree, k) + c
          /\ post.count = _count + c
          /\ post.size = _size
          /\ Shape(post) = Shape(Tree)
          /\ \A j \in Keys \ {k} : CountOf(post, j) = CountOf(Tree, j)

\* an add of a present key has just completed on a tree of several keys
C7_Witness ==
  /\ last.op = "addExisting"
  /\ NodeCount(Tree) >= 2
  /\ \E n \in Reach(heap, root) : heap[n].count >= 2

\* C8: add(key, value, c) with c >= 1 on an absent key makes the key present with
\* count exactly c, increases size by exactly 1 and the total by exactly c, returns
\* the inserted node, and leaves the keys and counts stored before unchanged.
C8_AddAbsentInserts ==
  \A k \in Keys, c \in Counts :
    (GetNode(heap, root, k) = NIL /\ AddEnabled(Tree, k, c)) =>
      LET r == Add(Tree, k, ValueOf(k), c)
          post == r.m
      IN  /\ CountOf(post, k) = c
          /\ post.size = _size + 1
          /\ post.count = _count + c
          /\ r.inserted # NIL
          /\ r.inserted \in Reach(post.heap, post.root)
          /\ post.heap[r.inserted].key = k
          /\ post.heap[r.inserted].count = c
          /\ Entries(post) = Entries(Tree) \cup {[key |-> k, count |-> c, value |-> ValueOf(k)]}

\* an add of an absent key has just completed and the tree holds three keys or more
C8_Witness == last.op = "addNew" /\ NodeCount(Tree) >= 3 /\ _size >= 3

\* C9: delete(k) with ignoreCount = false on a present key whose count is c > 1
\* decrements that key's count to c - 1 and the total by 1, and leaves size, the
\* tree shape and every other node's key, value and count unchanged.
C9_DeleteDecrements ==
  \A k \in Keys :
    (CountOf(Tree, k) > 1 /\ DeleteEnabled(Tree, k, FALSE)) =>
      LET post == Delete(Tree, k, FALSE).m
      IN  /\ CountOf(post, k) = CountOf(Tree, k) - 1
          /\ post.count = _count - 1
          /\ post.size = _size
          /\ View(post) = {IF e.key = k THEN [e EXCEPT !.count = @ - 1] ELSE e : e \in View(Tree)}

\* a count decrement has just completed on a tree of several keys, and the
\* decremented key can be decremented again
C9_Witness ==
  /\ last.op = "decrement"
  /\ NodeCount(Tree) >= 2
  /\ \E k \in Keys : CountOf(Tree, k) > 1 /\ DeleteEnabled(Tree, k, FALSE)

\* C10: delete(k) on a present key whose count is 1, or with ignoreCount = true,
\* removes the key: afterwards k is not found, size has decreased by exactly 1 and
\* the total by exactly the key's count before the call; for every tree, the tree
\* whose only node is k included.
C10_DeleteRemovesKey ==
  \A k \in Keys, ignoreCount \in BOOLEAN :
    (/\ GetNode(heap, root, k) # NIL
     /\ (CountOf(Tree, k) = 1 \/ ignoreCount)
     /\ DeleteEnabled(Tree, k, ignoreCount)) =>
      LET post == Delete(Tree, k, ignoreCount).m
      IN  /\ GetNode(post.heap, post.root, k) = NIL
          /\ Delete(post, k, ignoreCount).orgCurrent = NIL
          /\ post.size = _size - 1
          /\ post.count = _count - CountOf(Tree, k)

\* C11: delete(identifier) for an identifier that matches no node, any delete on
\* a tree without root included, returns no entry and leaves size, total, tree
\* shape and every count as they were.
C11_DeleteMissIsNoOp ==
  \A k \in Keys, ignoreCount \in BOOLEAN :
    (root = NIL \/ GetNode(heap, root, k) = NIL) =>
      LET r == Delete(Tree, k, ignoreCount)
      IN  /\ r.orgCurrent = NIL
          /\ r.needBalanced = NIL
          /\ r.m.size = _size
          /\ r.m.count = _count
          /\ View(r.m) = View(Tree)
          /\ r.m = Tree

\* a delete that found nothing has just completed on a tree of two keys or more
C11_Witness ==
  /\ last.op = "miss"
  /\ NodeCount(Tree) >= 2
  /\ \E k \in Keys : GetNode(heap, root, k) = NIL

\* C12: a delete by key k that finds its target returns one entry, and after a
\* structural removal the deleted node of that entry carries key k and the
\* count k had before the call, both when a node without left child is spliced
\* out and when the payload is exchanged with the in-order predecessor, whose
\* slot is the one detached.
C12_DeletedCarriesKeyAndCount ==
  \A k \in AllKeys, ignoreCount \in BOOLEAN :
    (/\ GetNode(heap, root, k) # NIL
     /\ (CountOf(Tree, k) = 1 \/ ignoreCount)
     /\ DeleteEnabled(Tree, k, ignoreCount)) =>
      LET r == Delete(Tree, k, ignoreCount)
          branch == DeleteBranch(Tree, k, ignoreCount)
      IN  /\ r.orgCurrent # NIL
          /\ r.m.heap[r.orgCurrent].key = k
          /\ r.m.heap[r.orgCurrent].count = CountOf(Tree, k)
          /\ r.m.heap[r.orgCurrent].value = ValueOf(k)
          /\ branch = "swap" =>
               r.orgCurrent = GetRightMost(heap, heap[GetNode(heap, root, k)].left)
          /\ branch # "swap" => r.orgCurrent = GetNode(heap, root, k)
          /\ branch # "lastNode" => r.orgCurrent \notin Reach(r.m.heap, r.m.root)

\* a predecessor exchange has just completed, and a key stored more than once
\* can now be removed whole by either branch
C12_Witness ==
  /\ last.op = "swap"
  /\ \E k \in Keys :
       /\ CountOf(Tree, k) > 1
       /\ DeleteBranch(Tree, k, TRUE) \in {"swap", "spliceChild"}
       /\ DeleteEnabled(Tree, k, TRUE)

\* C13: a structural delete of key k loses nothing but k: the in-order
\* (key, value, count) sequence afterwards is the sequence before without k's
\* entry, so every other key is still reachable with its value and count and no
\* subtree of the removed node is lost.
C13_DeleteLosesOnlyK ==
  \A k \in AllKeys, ignoreCount \in BOOLEAN :
    (/\ GetNode(heap, root, k) # NIL
     /\ (CountOf(Tree, k) = 1 \/ ignoreCount)
     /\ DeleteEnabled(Tree, k, ignoreCount)) =>
      LET post == Delete(Tree, k, ignoreCount).m
      IN  InOrderEntries(post) = WithoutKey(InOrderEntries(Tree), k)

\* C13 for every structural delete but that of the only node of the tree
C13_ExceptOnlyNode ==
  \A k \in AllKeys, ignoreCount \in BOOLEAN :
    (/\ GetNode(heap, root, k) # NIL
     /\ (CountOf(Tree, k) = 1 \/ ignoreCount)
     /\ DeleteBranch(Tree, k, ignoreCount) # "lastNode"
     /\ DeleteEnabled(Tree, k, ignoreCount)) =>
      LET post == Delete(Tree, k, ignoreCount).m
      IN  InOrderEntries(post) = WithoutKey(InOrderEntries(Tree), k)

\* C14: for any tree with a root, after perfectlyBalance() the in-order
\* (key, value, count) sequence is the one before the call, size and total are
\* unchanged, and isAVLBalanced() is true.
C14_BalanceRoundTrip ==
  \A iterationType \in IterationTypes :
    root # NIL =>
      LET r == PerfectlyBalance(Tree, iterationType)
      IN  /\ r.ok
          /\ InOrderEntries(r.m) = InOrderEntries(Tree)
          /\ r.m.size = _size
          /\ r.m.count = _count
          /\ IsAVLBalanced(r.m.heap, r.m.root)

\* C14 on the trees whose size and total are those of their nodes
C14_WithoutDrift ==
  \A iterationType \in IterationTypes :
    (root # NIL /\ _size = NodeCount(Tree) /\ CountDrift(Tree) = 0) =>
      LET r == PerfectlyBalance(Tree, iterationType)
      IN  /\ r.ok
          /\ InOrderEntries(r.m) = InOrderEntries(Tree)
          /\ r.m.size = _size
          /\ r.m.count = _count
          /\ IsAVLBalanced(r.m.heap, r.m.root)

\* C15: from every starting tree, perfectlyBalance(RECURSIVE) and
\* perfectlyBalance(ITERATIVE) end with the same in-order key sequence, the same
\* count under every key, the same size and the same total.
C15_VariantsAgreeOnContent ==
  LET rec == PerfectlyBalance(Tree, "RECURSIVE")
      itr == PerfectlyBalance(Tree, "ITERATIVE")
  IN  /\ rec.ok = itr.ok
      /\ InOrderKeys(rec.m.heap, rec.m.root) = InOrderKeys(itr.m.heap, itr.m.root)
      /\ \A k \in AllKeys : CountOf(rec.m, k) = CountOf(itr.m, k)
      /\ rec.m.size = itr.m.size
      /\ rec.m.count = itr.m.count

\* a rebuild has just completed on a tree of three keys or more, one of them
\* stored more than once
C15_Witness ==
  /\ last.op \in IterationTypes
  /\ NodeCount(Tree) >= 3
  /\ \E k \in Keys : CountOf(Tree, k) > 1

\* C16: add called with the null or undefined key, given directly or as the key
\* of a [key, value] entry, returns no node and changes nothing: size, total,
\* tree shape and every count are as before.
C16_AddUndefinedIsNoOp ==
  \A c \in Counts :
    LET r == Add(Tree, NIL, ValueOf(NIL), c)
    IN  /\ r.inserted = NIL
        /\ r.m.size = _size
        /\ r.m.count = _count
        /\ View(r.m) = View(Tree)
        /\ r.m = Tree

\* an add with the undefined key has just completed on a tree of two keys or more
C16_Witness == last.op = "addUndefined" /\ NodeCount(Tree) >= 2 /\ _size >= 2

\* the 0-based index, in the in-order key sequence of tree pre, of the key at
\* the root of tree post
RootIndex(pre, post) ==
  LET ks == InOrderKeys(pre.heap, pre.root)
  IN  (CHOOSE i \in 1 .. Len(ks) : ks[i] = post.heap[post.root].key) - 1

\* the statement of C17 as the document makes it: after perfectlyBalance() on a
\* tree of n >= 1 keys the root holds the element at index floor((n - 1) / 2) of
\* the in-order sequence captured before the rebuild
C17_RootIsLowerMedian ==
  \A iterationType \in IterationTypes :
    root # NIL =>
      LET post == PerfectlyBalance(Tree, iterationType).m
          n == Len(Sorted(Tree))
      IN  RootIndex(Tree, post) = (n - 1) \div 2

\* C17: after perfectlyBalance() on a tree of n >= 1 keys the root holds the
\* lower median (index floor((n - 1) / 2) of the sequence captured before the
\* rebuild) when n <= 4 and when n = 7; the rotations of the rebalancing add
\* leave index 1 at the root when n = 5 and index 3 when n = 6, so the root is
\* within one position of the lower median.
C17_RootNearLowerMedian ==
  \A iterationType \in IterationTypes :
    root # NIL =>
      LET post == PerfectlyBalance(Tree, iterationType).m
          n == Len(Sorted(Tree))
          i == RootIndex(Tree, post)
          median == (n - 1) \div 2
      IN  /\ post.root # NIL
          /\ n \in (1 .. 4) \cup {7} => i = median
          /\ n = 5 => i = 1
          /\ n = 6 => i = 3
          /\ i \in {median - 1, median, median + 1}

\* a rebuild has just completed on a tree of five keys, and a further rebuild
\* leaves the root where it is
C17_Witness ==
  /\ last.op \in IterationTypes
  /\ NodeCount(Tree) = 5
  /\ RootIndex(Tree, Tree) = 1
  /\ RootIndex(Tree, PerfectlyBalance(Tree, "RECURSIVE").m) = 1

\* the statement of C18 as the document makes it: during the rebuild of
\* perfectlyBalance no insertion leaves a node with a balance factor outside
\* [-1, 1], so nothing is rotated and the final shape is the shape the
\* median-first insertions give by themselves
C18_RebuildNeverRotates ==
  \A iterationType \in IterationTypes :
    root # NIL =>
      LET sorted == Sorted(Tree)
          order == RebuildOrder(iterationType, Len(sorted))
          post == PerfectlyBalance(Tree, iterationType).m
      IN  /\ RotatingSteps(Clear(Tree), sorted, order) = {}
          /\ Shape(post) = Shape(ReplayInsertOnly(Clear(Tree), sorted, order))

\* C18: the rebuild of perfectlyBalance is the sequence of rebalancing adds in
\* median-first order.  On n <= 4 keys no insertion leaves a balance factor
\* outside [-1, 1] and the final shape is that of the insertions alone.  On
\* 5 <= n <= 7 keys the third insertion does and add rotates; the final shape
\* differs from that of the insertions alone for n = 5 and n = 6 and coincides
\* with it again for n = 7.  The rebuilt tree is AVL-balanced in every case.
C18_RebuildRotatesFromFiveKeys ==
  \A iterationType \in IterationTypes :
    root # NIL =>
      LET sorted == Sorted(Tree)
          n == Len(sorted)
          order == RebuildOrder(iterationType, n)
          post == PerfectlyBalance(Tree, iterationType).m
          steps == RotatingSteps(Clear(Tree), sorted, order)
          alone == ReplayInsertOnly(Clear(Tree), sorted, order)
      IN  /\ post = Replay(Clear(Tree), sorted, order)
          /\ IsAVLBalanced(post.heap, post.root)
          /\ n <= 4 => steps = {} /\ Shape(post) = Shape(alone)
          /\ n >= 5 => 3 \in steps
          /\ n \in {5, 6} => Shape(post) # Shape(alone)
          /\ n = 7 => Shape(post) = Shape(alone)

\* a rebuild has just completed on a tree of five keys, and rebuilding it again
\* rotates at the third insertion
C18_Witness ==
  /\ last.op \in IterationTypes
  /\ NodeCount(Tree) = 5
  /\ 3 \in RotatingSteps(Clear(Tree), Sorted(Tree), RebuildOrder(last.op, 5))

\* the stored height of a child, an absent child counting as -1
StoredHeight(h, n) == IF n = NIL THEN 0 - 1 ELSE h[n].height

\* C19: after every completed add or delete the height field of each reachable
\* node is 1 + the larger of the height fields of its children, an absent child
\* counting as -1; so also after a delete by predecessor exchange, which swaps
\* the height fields of the two slots before the upward rebalance runs.
C19_StoredHeightsExact ==
  \A n \in Reach(heap, root) :
    LET l == StoredHeight(heap, heap[n].left)
        r == StoredHeight(heap, heap[n].right)
    IN  heap[n].height = 1 + (IF l > r THEN l ELSE r)

\* a predecessor exchange has just completed on a tree that keeps three keys, so
\* the relabelled node or an ancestor of it stores a height above 0
C19_Witness ==
  /\ last.op = "swap"
  /\ NodeCount(Tree) >= 3
  /\ heap[root].height >= 1

\* C20: the recursive and the iterative variant of perfectlyBalance re-insert
\* each of the n captured elements exactly once and in the same order: the
\* median of the range, then the whole left half, then the whole right half
\* (the stack loop pushes the right range before the left one and pops the last
\* pushed).  Both therefore produce the same tree shape from every starting tree.
C20_VariantsSameOrderAndShape ==
  LET sorted == Sorted(Tree)
      n == Len(sorted)
      recOrder == RebuildOrder("RECURSIVE", n)
      itrOrder == RebuildOrder("ITERATIVE", n)
      rec == PerfectlyBalance(Tree, "RECURSIVE")
      itr == PerfectlyBalance(Tree, "ITERATIVE")
      median == (n - 1) \div 2
  IN  /\ recOrder = itrOrder
      /\ Len(recOrder) = n
      /\ \A i \in 0 .. (n - 1) : Cardinality({j \in 1 .. n : recOrder[j] = i}) = 1
      /\ n >= 1 =>
           /\ recOrder[1] = median
           /\ \A j \in 2 .. (median + 1) : recOrder[j] < median
           /\ \A j \in (median + 2) .. n : recOrder[j] > median
           /\ rec.m = Replay(Clear(Tree), sorted, recOrder)
           /\ itr.m = Replay(Clear(Tree), sorted, itrOrder)
      /\ rec.ok = itr.ok
      /\ Shape(rec.m) = Shape(itr.m)
      /\ View(rec.m) = View(itr.m)

\* an iterative rebuild has just completed on a tree of five keys or more, where
\* each half of the index range holds two elements or more
C20_Witness ==
  /\ last.op = "ITERATIVE"
  /\ NodeCount(Tree) >= 5
  /\ Shape(Tree) = Shape(PerfectlyBalance(Tree, "RECURSIVE").m)

\* every edge object is in the list of its first end exactly when it is in the
\* list of its second end
AdjacencySymmetric ==
  \A edge \in EdgeObjects :
    InListOf(Graph, edge, edge.vertices[1]) <=> InListOf(Graph, edge, edge.vertices[2])

\* an addEdge that returns false leaves the Map as it was
FalseAddEdgeChangesNothing ==
  \A edge \in EdgeObjects :
    ~addEdge(Graph, edge).ok => addEdge(Graph, edge).g = Graph

\* C21: after any sequence of addEdge and removeEdgeBetween/removeEdge calls the
\* adjacency map of the UndirectedGraph is symmetric (an edge object is in the
\* edge list of one of its end vertices exactly when it is in that of the
\* other), and an addEdge that returns false leaves the map unchanged.
C21_AdjacencySymmetric == AdjacencySymmetric /\ FalseAddEdgeChangesNothing

====
